---- MODULE Spec2Model ----
(***************************************************************************)
(* Model of the order-management Telegram bot: the conversation state      *)
(* machine registered in main.py, the step handlers of handlers.py, the    *)
(* remote API client of api.py and the SQLite session store of storage.py. *)
(***************************************************************************)
EXTENDS Integers, Sequences, FiniteSets, TLC

VARIABLES
    sessions,    \* rows of table sessions(telegram_id PRIMARY KEY, access_token NOT NULL)
    conv,        \* ConversationHandler's state per user ("END": no conversation)
    user_data,   \* context.user_data per user (the scratch state)
    last         \* the latest update: who sent it, what ran, the calls it made,
                 \* and the table and the user's scratch as they were before it

vars == <<sessions, conv, user_data, last>>

(* ------------------------------ bounds -------------------------------- *)
NumTokens == 2
NumPhones == 2

(* the longest string the email check is applied to *)
MaxEmailLen == 6

(* the most entries drawn for an order's items list *)
MaxItems == 2

(* Two chats: users meet only in the sessions table, which every operation *)
(* reads and writes by its own telegram_id.                                 *)
Users == {1, 2}
Tokens == {"tok" \o ToString(i) : i \in 1..NumTokens}
Phones == {"+7900" \o ToString(i) : i \in 1..NumPhones}

(* Python's None / a key that a dict or a JSON object does not hold. *)
None == "None"
Missing == "Missing"

(* --------------------------- conversation states ----------------------- *)
ASK_EMAIL == "ASK_EMAIL"
ASK_PASSWORD == "ASK_PASSWORD"
ASK_ORDER_ID == "ASK_ORDER_ID"
WAITING_FOR_OTP == "WAITING_FOR_OTP"
END == "END"
RAISE == "RAISE"

ActiveStates == {ASK_EMAIL, ASK_PASSWORD, ASK_ORDER_ID, WAITING_FOR_OTP}
ConvStates == ActiveStates \cup {END}

(* ------------------------------ scratch -------------------------------- *)
(* context.user_data is a dict: a function whose domain is the keys held.  *)
EmptyData == [k \in {} |-> None]

HasKey(d, key) == key \in DOMAIN d

(* d.get(key): the value, or None when the key is absent *)
Get(d, key) == IF key \in DOMAIN d THEN d[key] ELSE None

(* d[key] = value *)
Put(d, key, value) ==
    [k \in DOMAIN d \cup {key} |-> IF k = key THEN value ELSE d[k]]

(* truthiness that takes the empty string for a value *)
Truthy_of_empty_string(v) == v \notin {None, Missing}

(* Python truthiness of the values the handlers test with `if x` / `if not x`. *)
Truthy(v) == v \notin {None, Missing, ""}

(* ========================= storage.py: session store =================== *)
Row(telegram_id, access_token) ==
    [telegram_id |-> telegram_id, access_token |-> access_token]

RowsOf(rows, telegram_id) == {r \in rows : r.telegram_id = telegram_id}

(* CREATE TABLE IF NOT EXISTS: the table that is there is left as it is *)
init_db(rows) == rows

(* INSERT without OR REPLACE semantics: the old row stays beside the new *)
save_token_keeps_old_row(rows, telegram_id, access_token) ==
    IF access_token = None
    THEN [raised |-> TRUE, rows |-> rows]
    ELSE [raised |-> FALSE,
          rows |-> rows \cup {Row(telegram_id, access_token)}]

(* INSERT OR REPLACE: the row holding the same primary key is deleted, then *)
(* the new row is inserted.  A NULL access_token breaks NOT NULL: the       *)
(* statement raises and the table is left as it was.                        *)
save_token(rows, telegram_id, access_token) ==
    IF access_token = None
    THEN [raised |-> TRUE, rows |-> rows]
    ELSE [raised |-> FALSE,
          rows |-> (rows \ RowsOf(rows, telegram_id))
                      \cup {Row(telegram_id, access_token)}]

(* SELECT access_token ... WHERE telegram_id = ?; fetchone(); row[0] or None *)
get_token(rows, telegram_id) ==
    IF RowsOf(rows, telegram_id) = {}
    THEN None
    ELSE (CHOOSE r \in RowsOf(rows, telegram_id) : TRUE).access_token

(* DELETE FROM sessions WHERE telegram_id = ? *)
delete_token(rows, telegram_id) == rows \ RowsOf(rows, telegram_id)

(* ============================ api.py: remote API ======================= *)
(* What one HTTP exchange can come to: a response (status, decoded body),  *)
(* an aiohttp.ClientError, or another exception (a timeout, a decode        *)
(* error of the transport).                                                 *)
Statuses == {200, 401, 403, 422}

(* Bodies of the login endpoint after json.loads (or the raw text when it   *)
(* does not decode): a JSON object with or without "token" (the token may   *)
(* be null), text or an array that does or does not hold the word "token",  *)
(* a JSON scalar.                                                           *)
LoginBodies ==
    {[kind |-> "object", token |-> t] : t \in Tokens \cup {None, Missing}}
    \cup {[kind |-> k, token |-> Missing] :
            k \in {"text", "text_token", "array", "array_token", "scalar"}}

(* Bodies of the order endpoint: an object whose data.customer.phone is a   *)
(* phone, empty or missing; an object whose data is null; undecodable text. *)
OrderBodies ==
    {[kind |-> "object", phone |-> p] : p \in Phones \cup {Missing, ""}}
    \cup {[kind |-> k, phone |-> Missing] : k \in {"data_null", "text"}}

NoBody == [kind |-> "none"]

Exchanges(bodies) ==
    {[transport |-> "response", status |-> s, body |-> b] :
        s \in Statuses, b \in bodies}
    \cup {[transport |-> t, status |-> 0, body |-> NoBody] :
            t \in {"client_error", "other_error"}}

(* The result of a client call: a value, an APIError(status), or another   *)
(* exception.                                                               *)
Returned(v) == [kind |-> "ok", status |-> 200, value |-> v]
APIError(status) == [kind |-> "api", status |-> status]
OtherError == [kind |-> "exc"]

(* `"token" not in response_json` followed by response_json["token"]:      *)
(* membership on a dict is by key, on text by substring, on a list by      *)
(* element; a scalar is not iterable; indexing text or a list by "token"   *)
(* is a TypeError.                                                          *)
TokenOf200(body) ==
    CASE body.kind = "object" ->
            IF body.token = Missing THEN APIError(200) ELSE Returned(body.token)
      [] body.kind \in {"text", "array"} -> APIError(200)
      [] body.kind \in {"text_token", "array_token"} -> OtherError
      [] OTHER -> OtherError

authenticate_user(x) ==
    CASE x.transport = "client_error" -> APIError(500)
      [] x.transport = "other_error" -> OtherError
      [] OTHER -> IF x.status = 200 THEN TokenOf200(x.body)
                  ELSE APIError(x.status)

get_order_by_id(x) ==
    CASE x.transport = "client_error" -> APIError(500)
      [] x.transport = "other_error" -> OtherError
      [] OTHER -> IF x.status = 200 THEN Returned(x.body)
                  ELSE APIError(x.status)

create_otp(x) ==
    CASE x.transport = "client_error" -> APIError(500)
      [] x.transport = "other_error" -> OtherError
      [] OTHER -> IF x.status = 200 THEN Returned("True")
                  ELSE APIError(x.status)

verify_otp(x) ==
    CASE x.transport = "client_error" -> APIError(500)
      [] x.transport = "other_error" -> OtherError
      [] OTHER -> IF x.status = 200 THEN Returned("True")
                  ELSE APIError(x.status)

(* ====================== handlers.py: input validation ================== *)
Letters == {"a", "b", "c", "o", "Z"}
Digits == {"1"}
Whitespace == {" "}
LocalChars == Letters \cup Digits \cup {".", "_", "%", "+", "-"}
DomainChars == Letters \cup Digits \cup {".", "-"}

AllIn(s, lo, hi, chars) == \A k \in lo..hi : s[k] \in chars

(* str.strip(): leading and trailing whitespace removed *)
RECURSIVE lstrip(_)
lstrip(s) == IF s # <<>> /\ Head(s) \in Whitespace THEN lstrip(Tail(s)) ELSE s

RECURSIVE rstrip(_)
rstrip(s) ==
    IF s # <<>> /\ s[Len(s)] \in Whitespace
    THEN rstrip(SubSeq(s, 1, Len(s) - 1))
    ELSE s

strip(s) == rstrip(lstrip(s))

(* the pattern without its `\.`: a domain needs no dot *)
MatchesUpTo_without_dot(s, n) ==
    \E i \in 2..n :
        /\ i < n
        /\ s[i] = "@"
        /\ AllIn(s, 1, i - 1, LocalChars)
        /\ AllIn(s, i + 1, n, DomainChars)

(* re.match(r'^[a-zA-Z0-9._%+-]+@[a-zA-Z0-9.-]+\.[a-zA-Z]{2,}$', s).  The   *)
(* string matches when some '@' at i and some '.' at j split it into a      *)
(* local part, a domain and a top-level part of two letters or more; `$`    *)
(* also matches just before one trailing newline.                           *)
MatchesUpTo(s, n) ==
    \E i \in 2..n, j \in 4..n :
        /\ i + 1 < j
        /\ s[i] = "@"
        /\ s[j] = "."
        /\ AllIn(s, 1, i - 1, LocalChars)
        /\ AllIn(s, i + 1, j - 1, DomainChars)
        /\ n - j >= 2
        /\ AllIn(s, j + 1, n, Letters)

is_valid_email(s) ==
    \/ MatchesUpTo(s, Len(s))
    \/ Len(s) > 0 /\ s[Len(s)] = "\n" /\ MatchesUpTo(s, Len(s) - 1)

(* ===================== handlers.py: the order summary ================== *)
(* A JSON value as Python holds it: its type and the text str() gives.     *)
PyValue(type, text) == [type |-> type, text |-> text]
PyMissing == PyValue("missing", <<>>)
PyNone == PyValue("NoneType", <<"N", "o", "n", "e">>)
str(v) == v.text

(* the backquote is written by its code point *)
SpecialChars ==
    {"_", "*", "[", "]", "(", ")", "~", "U+0060", ">", "#", "+", "-", "=",
     "|", "{", "}", ".", "!"}

(* escape_markdown: a backslash before every special character *)
RECURSIVE escape_markdown(_)
escape_markdown(text) ==
    IF text = <<>>
    THEN <<>>
    ELSE (IF Head(text) \in SpecialChars THEN <<"\\", Head(text)>>
          ELSE <<Head(text)>>) \o escape_markdown(Tail(text))

(* d.get(key, default) on a value that may be missing *)
GetOr(v, default) == IF v.type = "missing" THEN default ELSE v

(* An order payload by the shapes the renderer tells apart: the type of    *)
(* order_data, of order_data['data'] and of data['items'], the entries of  *)
(* an items list, data['id'] and data['email_sent'].                       *)
ItemShapes ==
    {"dict", "dict_without_additional", "dict_additional_None",
     "dict_additional_str", "str"}

(* item.get('additional', {}).get('quantity', 0) and the item.get calls    *)
(* that follow raise AttributeError on these                                *)
ItemRaises(item) ==
    item \in {"dict_additional_None", "dict_additional_str", "str"}

(* `for item in items` raises TypeError on None and on a number; a string  *)
(* yields its characters, which have no get                                 *)
ItemsRaise(items, entries) ==
    \/ items \in {"NoneType", "int", "str"}
    \/ items = "list" /\ \E k \in DOMAIN entries : ItemRaises(entries[k])

OrderIds ==
    {PyMissing, PyNone, PyValue("int", <<"1", "7">>),
     PyValue("str", <<"A", "-", "1", ".", "7">>)}

EmailSentValues == {PyMissing, PyValue("int", <<"1">>), PyValue("str", <<"1">>)}

Payload(top, data, items, entries, id, email_sent) ==
    [top |-> top, data |-> data, items |-> items, entries |-> entries,
     id |-> id, email_sent |-> email_sent]

OrderPayloads ==
    {Payload(top, "missing", "missing", <<>>, PyMissing, PyMissing) :
        top \in {"NoneType", "list", "str"}}
    \cup {Payload("dict", data, "missing", <<>>, PyMissing, PyMissing) :
            data \in {"missing", "NoneType", "list", "str", "int"}}
    \cup {Payload("dict", "dict", items, <<>>, id, e) :
            items \in {"missing", "NoneType", "int", "str"},
            id \in OrderIds, e \in EmailSentValues}
    \cup {Payload("dict", "dict", "list", entries, id, e) :
            entries \in UNION {[1..n -> ItemShapes] : n \in 0..MaxItems},
            id \in OrderIds, e \in EmailSentValues}

Rendered(kind, order_id, items, email_sent) ==
    [kind |-> kind, order_id |-> order_id, items |-> items,
     email_sent |-> email_sent]

Raised == Rendered("raise", <<>>, 0, "")

(* the except clause: order_data.get('data', {}).get('id', 'N/A') inside   *)
(* the text it returns; nothing catches what this expression raises        *)
FormatError(order_data) ==
    IF order_data.top # "dict"
    THEN Raised
    ELSE IF order_data.data = "missing"
    THEN Rendered("error_text", <<"N", "/", "A">>, 0, "")
    ELSE IF order_data.data # "dict"
    THEN Raised
    ELSE Rendered("error_text",
                  str(GetOr(order_data.id, PyValue("str", <<"N", "/", "A">>))),
                  0, "")

format_order_details(order_data) ==
    IF order_data.top # "dict"
    THEN FormatError(order_data)
    ELSE IF order_data.data = "missing"
    THEN Rendered("summary", <<"N", "/", "A">>, 0, "No")
    ELSE IF order_data.data # "dict"
    THEN FormatError(order_data)
    ELSE IF ItemsRaise(order_data.items, order_data.entries)
    THEN FormatError(order_data)
    ELSE Rendered("summary",
                  escape_markdown(
                      str(GetOr(order_data.id, PyValue("str", <<"N", "/", "A">>)))),
                  Len(order_data.entries),
                  IF order_data.email_sent = PyValue("int", <<"1">>)
                  THEN "Yes" ELSE "No")

(* ========================= handlers.py: the steps ====================== *)
(* A step's environment: whether the session store call, the deletion of   *)
(* the inbound message and each reply it attempts (numbered in the order    *)
(* attempted) raise, and the results r1, r2 of the client calls it awaits.  *)
Call(op, arg, ok) ==
    [op |-> op, arg |-> arg, ok |-> ok, status |-> 0, result |-> [kind |-> "none"]]

(* a client call and what it came to: the status of the APIError it raised, *)
(* 200 when it returned, 0 when it raised another exception; `result` is    *)
(* the value it returned or the exception it raised                         *)
Remote(op, arg, r) ==
    [op |-> op, arg |-> arg, ok |-> r.kind = "ok",
     status |-> IF r.kind \in {"ok", "api"} THEN r.status ELSE 0,
     result |-> r]

Res(ret, data, rows, calls) ==
    [ret |-> ret, data |-> data, rows |-> rows, calls |-> calls]

(* await update.message.reply_text(...), the n-th reply the step attempts *)
Sent(env, n) == n \notin env.failing
Reply(env, n, kind) == Call("reply", kind, Sent(env, n))

OrRaise(ok, ret) == IF ok THEN ret ELSE RAISE

(* start that clears the scratch state before it looks for a session *)
start_clears_first(u, data, rows, env) ==
    IF env.store = "raise"
    THEN Res(RAISE, EmptyData, rows, <<Call("get_token", "", FALSE)>>)
    ELSE IF Truthy(get_token(rows, u))
    THEN Res(OrRaise(Sent(env, 1), ASK_ORDER_ID), EmptyData, rows,
             <<Call("get_token", "", TRUE),
               Reply(env, 1, "already_authorized")>>)
    ELSE Res(OrRaise(Sent(env, 1), ASK_EMAIL), EmptyData, rows,
             <<Call("get_token", "", TRUE), Reply(env, 1, "welcome")>>)

(* start that leaves the scratch state of a user who is not logged in *)
start_keeps_scratch(u, data, rows, env) ==
    IF env.store = "raise"
    THEN Res(RAISE, data, rows, <<Call("get_token", "", FALSE)>>)
    ELSE IF Truthy(get_token(rows, u))
    THEN Res(OrRaise(Sent(env, 1), ASK_ORDER_ID), data, rows,
             <<Call("get_token", "", TRUE),
               Reply(env, 1, "already_authorized")>>)
    ELSE Res(OrRaise(Sent(env, 1), ASK_EMAIL), data, rows,
             <<Call("get_token", "", TRUE), Reply(env, 1, "welcome")>>)

start(u, data, rows, env) ==
    IF env.store = "raise"
    THEN Res(RAISE, data, rows, <<Call("get_token", "", FALSE)>>)
    ELSE LET token == get_token(rows, u)
             c == <<Call("get_token", "", TRUE)>>
         IN  IF Truthy(token)
             THEN Res(OrRaise(Sent(env, 1), ASK_ORDER_ID), data, rows,
                      Append(c, Reply(env, 1, "already_authorized")))
             ELSE Res(OrRaise(Sent(env, 1), ASK_EMAIL), EmptyData, rows,
                      Append(c, Reply(env, 1, "welcome")))

(* ask_email that stores what was typed before it checks it *)
ask_email_stores_unchecked(data, rows, text, env) ==
    LET email == strip(text)
        c0 == <<Call("message.text", text, TRUE)>>
    IN  IF ~is_valid_email(email)
        THEN Res(OrRaise(Sent(env, 1), ASK_EMAIL),
                 Put(data, "email", email), rows,
                 Append(c0, Reply(env, 1, "invalid_email")))
        ELSE Res(OrRaise(Sent(env, 1), ASK_PASSWORD),
                 Put(data, "email", email), rows,
                 Append(c0, Reply(env, 1, "email_accepted")))

(* ask_email: the text of the message is read, stripped and checked *)
ask_email(data, rows, text, env) ==
    LET email == strip(text)
        c0 == <<Call("message.text", text, TRUE)>>
    IN  IF ~is_valid_email(email)
        THEN Res(OrRaise(Sent(env, 1), ASK_EMAIL), data, rows,
                 Append(c0, Reply(env, 1, "invalid_email")))
        ELSE Res(OrRaise(Sent(env, 1), ASK_PASSWORD),
                 Put(data, "email", email), rows,
                 Append(c0, Reply(env, 1, "email_accepted")))

(* logout that leaves user_data as it is *)
logout_keeps_scratch(u, data, rows, env) ==
    IF env.store = "raise"
    THEN Res(RAISE, data, rows, <<Call("delete_token", "", FALSE)>>)
    ELSE Res(OrRaise(Sent(env, 1), END), data, delete_token(rows, u),
             <<Call("delete_token", "", TRUE), Reply(env, 1, "logged_out")>>)

(* logout: delete_token, user_data.clear(), reply, END; nothing is caught *)
logout(u, data, rows, env) ==
    IF env.store = "raise"
    THEN Res(RAISE, data, rows, <<Call("delete_token", "", FALSE)>>)
    ELSE Res(OrRaise(Sent(env, 1), END), EmptyData, delete_token(rows, u),
             <<Call("delete_token", "", TRUE), Reply(env, 1, "logged_out")>>)

(* cancel that clears user_data the way logout does *)
cancel_clears_scratch(data, rows, env) ==
    Res(OrRaise(Sent(env, 1), END), EmptyData, rows,
        <<Reply(env, 1, "cancelled")>>)

(* cancel: reply, END; user_data and the session are not touched *)
cancel(data, rows, env) ==
    Res(OrRaise(Sent(env, 1), END), data, rows,
        <<Reply(env, 1, "cancelled")>>)

(* the `except APIError` of ask_password that tries the login once more *)
PasswordAPIError_retries(rows, env, n, calls) ==
    Res(OrRaise(Sent(env, n), END), EmptyData, rows,
        Append(Append(calls, Remote("authenticate_user", "", env.r1)),
               Reply(env, n, "auth_failed")))

(* ask_password, `except APIError`: clear, report, END.  A reply that       *)
(* raises inside an except clause is caught by nothing.                     *)
PasswordAPIError(rows, env, n, calls) ==
    Res(OrRaise(Sent(env, n), END), EmptyData, rows,
        Append(calls, Reply(env, n, "auth_failed")))

(* ask_password, `except Exception`: clear, report, END *)
PasswordUnexpected(rows, env, n, calls) ==
    Res(OrRaise(Sent(env, n), END), EmptyData, rows,
        Append(calls, Reply(env, n, "unexpected_error")))

ask_password(u, data, rows, env) ==
    IF env.delete_msg = "raise"
    THEN Res(RAISE, data, rows, <<Call("delete_message", "", FALSE)>>)
    ELSE
    LET c0 == <<Call("delete_message", "", TRUE)>>
        auth == env.r1
        c1 == Append(c0, Remote("authenticate_user", "", auth))
        saved == save_token(rows, u, auth.value)
        saveOk == env.store = "ok" /\ ~saved.raised
        c2 == Append(c1, Call("save_token", auth.value, saveOk))
    IN  IF ~HasKey(data, "email")
        THEN PasswordUnexpected(rows, env, 1, c0)
        ELSE IF auth.kind = "api"
        THEN PasswordAPIError(rows, env, 1, c1)
        ELSE IF auth.kind = "exc"
        THEN PasswordUnexpected(rows, env, 1, c1)
        ELSE IF ~saveOk
        THEN PasswordUnexpected(rows, env, 1, c2)
        ELSE IF ~Sent(env, 1)
        THEN PasswordUnexpected(saved.rows, env, 2,
                                Append(c2, Reply(env, 1, "auth_success")))
        ELSE Res(ASK_ORDER_ID, Put(data, "authenticated", TRUE), saved.rows,
                 Append(c2, Reply(env, 1, "auth_success")))

(* the outer `except APIError` that treats every status as an expired session *)
OrderAPIError_always_expired(status, data, rows, env, n, calls) ==
    Res(OrRaise(Sent(env, n), END), EmptyData, rows,
        Append(calls, Reply(env, n, "session_expired")))

(* the outer `except APIError` that empties the sessions table on 401/403 *)
OrderAPIError_drops_sessions(status, data, rows, env, n, calls) ==
    IF status \in {401, 403}
    THEN Res(OrRaise(Sent(env, n), END), EmptyData, {},
             Append(calls, Reply(env, n, "session_expired")))
    ELSE Res(OrRaise(Sent(env, n), ASK_ORDER_ID), data, rows,
             Append(calls, Reply(env, n, "order_error")))

(* ask_order_id, outer `except APIError` *)
OrderAPIError(status, data, rows, env, n, calls) ==
    IF status \in {401, 403}
    THEN Res(OrRaise(Sent(env, n), END), EmptyData, rows,
             Append(calls, Reply(env, n, "session_expired")))
    ELSE Res(OrRaise(Sent(env, n), ASK_ORDER_ID), data, rows,
             Append(calls, Reply(env, n, "order_error")))

(* ask_order_id, outer `except Exception` *)
OrderUnexpected(data, rows, env, n, calls) ==
    Res(OrRaise(Sent(env, n), ASK_ORDER_ID), data, rows,
        Append(calls, Reply(env, n, "unexpected_error")))

(* the order step that requests the OTP before it sends the summary *)
OrderFound_otp_first(order_data, customer_phone, data, rows, env, calls) ==
    LET d1 == Put(Put(data, "current_order", order_data),
                  "customer_phone", customer_phone)
        otp == env.r2
        c1 == Append(calls, Remote("create_otp", customer_phone, otp))
        c2 == Append(c1, Reply(env, 1, "order_summary"))
    IN  IF otp.kind = "exc"
        THEN OrderUnexpected(d1, rows, env, 1, c1)
        ELSE IF otp.kind = "ok"
        THEN Res(WAITING_FOR_OTP, d1, rows,
                 Append(c2, Reply(env, 2, "otp_sent")))
        ELSE Res(ASK_ORDER_ID, d1, rows,
                 Append(c2, Reply(env, 2, "otp_failed")))

(* the order step that waits for a code although the OTP request failed *)
OrderFound_waits_without_otp(order_data, customer_phone, data, rows, env, calls) ==
    LET d1 == Put(Put(data, "current_order", order_data),
                  "customer_phone", customer_phone)
        c1 == Append(calls, Reply(env, 1, "order_summary"))
        otp == env.r2
        c2 == Append(c1, Remote("create_otp", customer_phone, otp))
    IN  IF ~Sent(env, 1)
        THEN OrderUnexpected(d1, rows, env, 2, c1)
        ELSE IF otp.kind = "exc"
        THEN OrderUnexpected(d1, rows, env, 2, c2)
        ELSE IF Sent(env, 2)
        THEN Res(WAITING_FOR_OTP, d1, rows,
                 Append(c2, Reply(env, 2,
                     IF otp.kind = "ok" THEN "otp_sent" ELSE "otp_failed")))
        ELSE OrderUnexpected(d1, rows, env, 3,
                 Append(c2, Reply(env, 2,
                     IF otp.kind = "ok" THEN "otp_sent" ELSE "otp_failed")))

(* the order step that keeps the phone of an earlier order in scratch *)
OrderFound_keeps_first_phone(order_data, customer_phone, data, rows, env, calls) ==
    LET d1 == IF HasKey(data, "customer_phone")
              THEN Put(data, "current_order", order_data)
              ELSE Put(Put(data, "current_order", order_data),
                       "customer_phone", customer_phone)
        c1 == Append(calls, Reply(env, 1, "order_summary"))
        otp == env.r2
        c2 == Append(c1, Remote("create_otp", customer_phone, otp))
    IN  IF ~Sent(env, 1)
        THEN OrderUnexpected(d1, rows, env, 2, c1)
        ELSE IF otp.kind = "exc"
        THEN OrderUnexpected(d1, rows, env, 2, c2)
        ELSE IF otp.kind = "ok"
        THEN Res(OrRaise(Sent(env, 2), WAITING_FOR_OTP), d1, rows,
                 Append(c2, Reply(env, 2, "otp_sent")))
        ELSE Res(OrRaise(Sent(env, 2), ASK_ORDER_ID), d1, rows,
                 Append(c2, Reply(env, 2, "otp_failed")))

(* ask_order_id after the order was fetched with a phone in it: scratch is  *)
(* written, the summary sent, the OTP requested.  The payload is an object  *)
(* whose data.customer.phone was read, so the renderer returns a string     *)
(* here (the summary or its own error text), which is sent as one reply.    *)
OrderFound(order_data, customer_phone, data, rows, env, calls) ==
    LET d1 == Put(Put(data, "current_order", order_data),
                  "customer_phone", customer_phone)
        c1 == Append(calls, Reply(env, 1, "order_summary"))
        otp == env.r2
        c2 == Append(c1, Remote("create_otp", customer_phone, otp))
    IN  IF ~Sent(env, 1)
        THEN OrderUnexpected(d1, rows, env, 2, c1)
        ELSE IF otp.kind = "exc"
        THEN OrderUnexpected(d1, rows, env, 2, c2)
        ELSE IF otp.kind = "ok"
        THEN IF Sent(env, 2)
             THEN Res(WAITING_FOR_OTP, d1, rows,
                      Append(c2, Reply(env, 2, "otp_sent")))
             ELSE OrderUnexpected(d1, rows, env, 3,
                                  Append(c2, Reply(env, 2, "otp_sent")))
        ELSE IF Sent(env, 2)
             THEN Res(ASK_ORDER_ID, d1, rows,
                      Append(c2, Reply(env, 2, "otp_failed")))
             ELSE OrderUnexpected(d1, rows, env, 3,
                                  Append(c2, Reply(env, 2, "otp_failed")))

(* the no-session branch that re-prompts instead of ending *)
OrderNoSession_stays(rows, env, calls) ==
    IF Sent(env, 1)
    THEN Res(ASK_ORDER_ID, EmptyData, rows,
             Append(calls, Reply(env, 1, "session_expired")))
    ELSE OrderUnexpected(EmptyData, rows, env, 2,
                         Append(calls, Reply(env, 1, "session_expired")))

(* ask_order_id, `if not token`: clear, report the expired session, END *)
OrderNoSession(rows, env, calls) ==
    IF Sent(env, 1)
    THEN Res(END, EmptyData, rows,
             Append(calls, Reply(env, 1, "session_expired")))
    ELSE OrderUnexpected(EmptyData, rows, env, 2,
                         Append(calls, Reply(env, 1, "session_expired")))

ask_order_id(u, data, rows, env) ==
    IF env.store = "raise"
    THEN OrderUnexpected(data, rows, env, 1, <<Call("get_token", "", FALSE)>>)
    ELSE
    LET token == get_token(rows, u)
        c0 == <<Call("get_token", "", TRUE)>>
        order == env.r1
        c1 == Append(c0, Remote("get_order_by_id", token, order))
        customer_phone == order.value.phone
    IN  IF ~Truthy(token)
        THEN OrderNoSession(rows, env, c0)
        ELSE IF order.kind = "api"
        THEN OrderAPIError(order.status, data, rows, env, 1, c1)
        ELSE IF order.kind = "exc" \/ order.value.kind # "object"
        THEN OrderUnexpected(data, rows, env, 1, c1)
        ELSE IF ~Truthy(customer_phone)
        THEN IF Sent(env, 1)
             THEN Res(ASK_ORDER_ID, data, rows,
                      Append(c1, Reply(env, 1, "no_phone")))
             ELSE OrderUnexpected(data, rows, env, 2,
                                  Append(c1, Reply(env, 1, "no_phone")))
        ELSE OrderFound(order.value, customer_phone, data, rows, env, c1)

(* handle_otp, outer `except Exception` *)
OtpUnexpected(data, rows, env, n, calls) ==
    Res(OrRaise(Sent(env, n), ASK_ORDER_ID), data, rows,
        Append(calls, Reply(env, n, "unexpected_error")))

(* handle_otp that drops the scratch state when the code is refused *)
handle_otp_forgets_phone(data, rows, env) ==
    LET c0 == <<Call("delete_message", "", TRUE)>>
        customer_phone == Get(data, "customer_phone")
        v == env.r1
        c1 == Append(c0, Remote("verify_otp", customer_phone, v))
    IN  IF ~Truthy(customer_phone)
        THEN Res(ASK_ORDER_ID, data, rows,
                 Append(c0, Reply(env, 1, "session_error")))
        ELSE IF v.kind = "exc"
        THEN OtpUnexpected(data, rows, env, 1, c1)
        ELSE IF v.kind = "ok"
        THEN Res(ASK_ORDER_ID, data, rows, Append(c1, Reply(env, 1, "otp_ok")))
        ELSE Res(WAITING_FOR_OTP, EmptyData, rows,
                 Append(c1, Reply(env, 1, "otp_invalid")))

(* handle_otp that gives the session up when the server answers 401 or 403 *)
handle_otp_ends_when_expired(data, rows, env) ==
    LET c0 == <<Call("delete_message", "", TRUE)>>
        customer_phone == Get(data, "customer_phone")
        v == env.r1
        c1 == Append(c0, Remote("verify_otp", customer_phone, v))
    IN  IF ~Truthy(customer_phone)
        THEN Res(ASK_ORDER_ID, data, rows,
                 Append(c0, Reply(env, 1, "session_error")))
        ELSE IF v.kind = "exc"
        THEN OtpUnexpected(data, rows, env, 1, c1)
        ELSE IF v.kind = "ok"
        THEN Res(ASK_ORDER_ID, data, rows, Append(c1, Reply(env, 1, "otp_ok")))
        ELSE IF v.status \in {401, 403}
        THEN Res(END, EmptyData, rows,
                 Append(c1, Reply(env, 1, "session_expired")))
        ELSE Res(WAITING_FOR_OTP, data, rows,
                 Append(c1, Reply(env, 1, "otp_invalid")))

(* handle_otp that lets the server decide when scratch holds no phone *)
handle_otp_verifies_without_phone(data, rows, env) ==
    LET c0 == <<Call("delete_message", "", TRUE)>>
        customer_phone == Get(data, "customer_phone")
        v == env.r1
        c1 == Append(c0, Remote("verify_otp", customer_phone, v))
    IN  IF v.kind = "exc"
        THEN OtpUnexpected(data, rows, env, 1, c1)
        ELSE IF v.kind = "ok"
        THEN Res(ASK_ORDER_ID, data, rows, Append(c1, Reply(env, 1, "otp_ok")))
        ELSE Res(WAITING_FOR_OTP, data, rows,
                 Append(c1, Reply(env, 1, "otp_invalid")))

handle_otp(data, rows, env) ==
    IF env.delete_msg = "raise"
    THEN Res(RAISE, data, rows, <<Call("delete_message", "", FALSE)>>)
    ELSE
    LET c0 == <<Call("delete_message", "", TRUE)>>
        customer_phone == Get(data, "customer_phone")
        v == env.r1
        c1 == Append(c0, Remote("verify_otp", customer_phone, v))
        kind == IF ~Truthy(customer_phone) THEN "session_error"
                ELSE IF v.kind = "ok" THEN "otp_ok" ELSE "otp_invalid"
        c == IF Truthy(customer_phone) THEN c1 ELSE c0
        ret == IF Truthy(customer_phone) /\ v.kind = "api"
               THEN WAITING_FOR_OTP ELSE ASK_ORDER_ID
    IN  IF Truthy(customer_phone) /\ v.kind = "exc"
        THEN OtpUnexpected(data, rows, env, 1, c1)
        ELSE IF Sent(env, 1)
        THEN Res(ret, data, rows, Append(c, Reply(env, 1, kind)))
        ELSE OtpUnexpected(data, rows, env, 2, Append(c, Reply(env, 1, kind)))

(* ================= main.py: registration and dispatch ================== *)
UpdateKinds == {"/start", "/logout", "/cancel", "text"}

Handler(filter, callback) == [filter |-> filter, callback |-> callback]

(* CommandHandler("x", f) accepts the command /x; MessageHandler(TEXT &     *)
(* ~COMMAND, f) accepts text that is no command.                            *)
entry_points == <<Handler("/start", "start")>>

states ==
    [s \in ActiveStates |->
        CASE s = ASK_EMAIL -> <<Handler("text", "ask_email")>>
          [] s = ASK_PASSWORD -> <<Handler("text", "ask_password")>>
          [] s = ASK_ORDER_ID -> <<Handler("text", "ask_order_id"),
                                   Handler("/logout", "logout")>>
          [] s = WAITING_FOR_OTP -> <<Handler("text", "handle_otp"),
                                      Handler("/cancel", "cancel")>>]

fallbacks == <<Handler("/cancel", "cancel")>>

(* the first handler of the list that accepts the update, or "none" *)
FirstMatch(handlers, kind) ==
    IF \E i \in DOMAIN handlers : handlers[i].filter = kind
    THEN handlers[CHOOSE i \in DOMAIN handlers :
                     /\ handlers[i].filter = kind
                     /\ \A j \in 1..(i - 1) : handlers[j].filter # kind].callback
    ELSE "none"

(* ConversationHandler with allow_reentry on: the entry points are tried   *)
(* in every state                                                           *)
conv_handler_allow_reentry(state, kind) ==
    IF FirstMatch(entry_points, kind) # "none"
    THEN FirstMatch(entry_points, kind)
    ELSE IF state = END
    THEN "none"
    ELSE IF FirstMatch(states[state], kind) # "none"
         THEN FirstMatch(states[state], kind)
         ELSE FirstMatch(fallbacks, kind)

(* ConversationHandler.check_update with allow_reentry off: without a      *)
(* conversation only the entry points are tried; within one, the state's   *)
(* handlers and then the fallbacks.                                         *)
conv_handler(state, kind) ==
    IF state = END
    THEN FirstMatch(entry_points, kind)
    ELSE IF FirstMatch(states[state], kind) # "none"
         THEN FirstMatch(states[state], kind)
         ELSE FirstMatch(fallbacks, kind)

(* only the conversation handler registered, without the global /logout *)
Dispatch_without_global_logout(state, kind) ==
    IF conv_handler(state, kind) # "none"
    THEN [callback |-> conv_handler(state, kind), in_conv |-> TRUE]
    ELSE [callback |-> "none", in_conv |-> FALSE]

(* register_handlers: the conversation handler, then the global /logout    *)
(* handler; the first of the two that accepts the update handles it.  A    *)
(* callback run by the global handler has its return value dropped.        *)
Dispatch(state, kind) ==
    IF conv_handler(state, kind) # "none"
    THEN [callback |-> conv_handler(state, kind), in_conv |-> TRUE]
    ELSE IF kind = "/logout"
    THEN [callback |-> "logout", in_conv |-> FALSE]
    ELSE [callback |-> "none", in_conv |-> FALSE]

(* The conversation's state after the callback: the state it returned when *)
(* the conversation handler ran it; unchanged when it raised or when the   *)
(* global handler ran it.                                                   *)
NextState(state, in_conv, ret) ==
    IF in_conv /\ ret # RAISE THEN ret ELSE state

(* ============================ environment ============================== *)
NoResult == [kind |-> "none"]

(* What each client call can come to, over every exchange with the server. *)
AuthResults == {authenticate_user(x) : x \in Exchanges(LoginBodies)}
OrderResults == {get_order_by_id(x) : x \in Exchanges(OrderBodies)}
CreateOtpResults == {create_otp(x) : x \in Exchanges({NoBody})}
VerifyOtpResults == {verify_otp(x) : x \in Exchanges({NoBody})}

(* create_otp is awaited only after an order with a phone was fetched. *)
OtpResultsAfter(r1) ==
    IF r1.kind = "ok" /\ r1.value.kind = "object" /\ Truthy(r1.value.phone)
    THEN CreateOtpResults
    ELSE {NoResult}

(* Store, message deletion and replies work. *)
Nominal == [stores |-> {"ok"}, deletes |-> {"ok"}, replies |-> {}]

(* Store calls, message deletion and any of the replies may raise. *)
Faulty ==
    [stores |-> {"ok", "raise"}, deletes |-> {"ok", "raise"},
     replies |-> {1, 2, 3}]

(* The environments of a step that attempts at most n replies. *)
Envs(F, n, R1) ==
    [store : F.stores, delete_msg : F.deletes,
     failing : SUBSET (F.replies \cap 1..n), r1 : R1]

With(env, r2) ==
    [store |-> env.store, delete_msg |-> env.delete_msg,
     failing |-> env.failing, r1 |-> env.r1, r2 |-> r2]

Texts ==
    { <<"a", "@", "b", ".", "c", "o">>,
      <<" ", "a", "@", "b", ".", "c", "o", " ">>,
      <<"a", "@", "b">>,
      <<"1", "2", "3">> }

(* ============================== the machine ============================ *)
(* What a conversation that waits for a code has seen, kept beside the     *)
(* latest update: the phone its latest create_otp that returned was called *)
(* with, and whether /logout was handled since the wait began (told of    *)
(* every step taken while waiting, the one that ends the wait included);   *)
(* `awaited` is the phone the user of the latest update was waiting a code *)
(* for when the update arrived.                                             *)
NoOtpPhone == [u \in Users |-> None]
NoLogout == [u \in Users |-> FALSE]

OtpPhoneAfter(old, next, calls) ==
    IF next # WAITING_FOR_OTP
    THEN None
    ELSE IF \E i \in DOMAIN calls : calls[i].op = "create_otp" /\ calls[i].ok
    THEN calls[CHOOSE i \in DOMAIN calls :
                  calls[i].op = "create_otp" /\ calls[i].ok].arg
    ELSE old

LoggedOutAfter(old, from, callback) ==
    /\ from = WAITING_FOR_OTP
    /\ old \/ callback = "logout"

Init ==
    /\ sessions = {}
    /\ conv = [u \in Users |-> END]
    /\ user_data = [u \in Users |-> EmptyData]
    /\ last = [user |-> 0, update |-> "none", callback |-> "none",
               in_conv |-> FALSE, from |-> END, ret |-> "none", calls |-> <<>>,
               rows |-> {}, data |-> EmptyData,
               otp_phone |-> NoOtpPhone, awaited |-> None,
               logged_out |-> NoLogout]

(* One update of user u handled by `callback` with result r. *)
Handle(u, kind, callback, r) ==
    /\ Dispatch(conv[u], kind).callback = callback
    /\ sessions' = r.rows
    /\ user_data' = [user_data EXCEPT ![u] = r.data]
    /\ conv' = [conv EXCEPT
                  ![u] = NextState(conv[u], Dispatch(conv[u], kind).in_conv, r.ret)]
    /\ last' = [user |-> u, update |-> kind, callback |-> callback,
                in_conv |-> Dispatch(conv[u], kind).in_conv,
                from |-> conv[u], ret |-> r.ret, calls |-> r.calls,
                rows |-> sessions, data |-> user_data[u],
                otp_phone |->
                    [last.otp_phone EXCEPT
                       ![u] = OtpPhoneAfter(@, conv'[u], r.calls)],
                awaited |-> last.otp_phone[u],
                logged_out |->
                    [last.logged_out EXCEPT
                       ![u] = LoggedOutAfter(@, conv[u], callback)]]

Start(u, F) ==
    \E env \in Envs(F, 1, {NoResult}) :
        Handle(u, "/start", "start", start(u, user_data[u], sessions, env))

AskEmail(u, F) ==
    \E env \in Envs(F, 1, {NoResult}), text \in Texts :
        Handle(u, "text", "ask_email",
               ask_email(user_data[u], sessions, text, env))

AskPassword(u, F) ==
    \E env \in Envs(F, 2, AuthResults) :
        Handle(u, "text", "ask_password",
               ask_password(u, user_data[u], sessions, env))

AskOrderId(u, F) ==
    \E env \in Envs(F, 3, OrderResults) :
        \E r2 \in OtpResultsAfter(env.r1) :
            Handle(u, "text", "ask_order_id",
                   ask_order_id(u, user_data[u], sessions, With(env, r2)))

HandleOtp(u, F) ==
    \E env \in Envs(F, 2, VerifyOtpResults) :
        Handle(u, "text", "handle_otp",
               handle_otp(user_data[u], sessions, env))

Logout(u, F) ==
    \E env \in Envs(F, 1, {NoResult}) :
        Handle(u, "/logout", "logout",
               logout(u, user_data[u], sessions, env))

Cancel(u, F) ==
    \E env \in Envs(F, 1, {NoResult}) :
        Handle(u, "/cancel", "cancel", cancel(user_data[u], sessions, env))

(* An update no handler accepts: nothing runs. *)
Ignored(u) ==
    \E kind \in UpdateKinds :
        Handle(u, kind, "none",
               Res("none", user_data[u], sessions, <<>>))

Step(F, U) ==
    \E u \in U :
        \/ Start(u, F)
        \/ AskEmail(u, F)
        \/ AskPassword(u, F)
        \/ AskOrderId(u, F)
        \/ HandleOtp(u, F)
        \/ Logout(u, F)
        \/ Cancel(u, F)
        \/ Ignored(u)

Next == Step(Nominal, Users)
Spec == Init /\ [][Next]_vars

(* One conversation whose store and transport calls may raise. *)
FaultUsers == {1}

NextFaults == Step(Faulty, FaultUsers)
SpecFaults == Init /\ [][NextFaults]_vars

(* ================= the session store called on its own ================= *)
(* storage.py's three functions called in any order with any arguments, as *)
(* a client of the module may call them.                                    *)
StoreCall(u, op, arg, ret, rows) ==
    /\ sessions' = rows
    /\ UNCHANGED <<conv, user_data>>
    /\ last' = [user |-> u, update |-> "none", callback |-> op,
                in_conv |-> FALSE, from |-> conv[u], ret |-> ret,
                calls |-> <<Call(op, arg, ret # RAISE)>>,
                rows |-> sessions, data |-> user_data[u],
                otp_phone |-> last.otp_phone, awaited |-> None,
                logged_out |-> last.logged_out]

SaveToken(u) ==
    \E t \in Tokens \cup {None} :
        StoreCall(u, "save_token", t,
                  IF save_token(sessions, u, t).raised THEN RAISE ELSE "None",
                  save_token(sessions, u, t).rows)

GetToken(u) ==
    StoreCall(u, "get_token", "", get_token(sessions, u), sessions)

DeleteToken(u) ==
    StoreCall(u, "delete_token", "", "None", delete_token(sessions, u))

InitDb(u) ==
    StoreCall(u, "init_db", "", "None", init_db(sessions))

NextStore ==
    \E u \in Users :
        SaveToken(u) \/ GetToken(u) \/ DeleteToken(u) \/ InitDb(u)
SpecStore == Init /\ [][NextStore]_vars

(* ================== the API client called on its own =================== *)
(* api.py's four functions, each called once over one HTTP exchange: the   *)
(* exchange is drawn at the start, the call turns it into a result.        *)
Pending(op, arg) ==
    [user |-> 0, update |-> "none", callback |-> "pending", in_conv |-> FALSE,
     from |-> END, ret |-> "none", calls |-> <<Call(op, arg, FALSE)>>,
     rows |-> {}, data |-> EmptyData,
     otp_phone |-> NoOtpPhone, awaited |-> None, logged_out |-> NoLogout]

IsPending(op) == last.callback = "pending" /\ last.calls[1].op = op

InitApi ==
    /\ sessions = {}
    /\ conv = [u \in Users |-> END]
    /\ user_data = [u \in Users |-> EmptyData]
    /\ \/ \E x \in Exchanges(LoginBodies) : last = Pending("authenticate_user", x)
       \/ \E x \in Exchanges(OrderBodies) : last = Pending("get_order_by_id", x)
       \/ \E x \in Exchanges({NoBody}) : last = Pending("create_otp", x)
       \/ \E x \in Exchanges({NoBody}) : last = Pending("verify_otp", x)

ApiCall(op, r) ==
    /\ IsPending(op)
    /\ last' = [last EXCEPT !.callback = op, !.ret = r.kind,
                            !.calls = <<Remote(op, last.calls[1].arg, r)>>]
    /\ UNCHANGED <<sessions, conv, user_data>>

AuthenticateUser ==
    ApiCall("authenticate_user", authenticate_user(last.calls[1].arg))

GetOrderById == ApiCall("get_order_by_id", get_order_by_id(last.calls[1].arg))

CreateOtp == ApiCall("create_otp", create_otp(last.calls[1].arg))

VerifyOtp == ApiCall("verify_otp", verify_otp(last.calls[1].arg))

NextApi == AuthenticateUser \/ GetOrderById \/ CreateOtp \/ VerifyOtp
SpecApi == InitApi /\ [][NextApi]_vars

(* ================= the email check called on its own =================== *)
(* is_valid_email applied to every string of up to MaxEmailLen characters  *)
(* over an alphabet that holds a letter, the underscore, '@', '.' and a    *)
(* letter outside ASCII (written by its code point).                       *)
EmailAlphabet == {"a", "_", "@", ".", "U+00E9"}

EmailInputs == UNION {[1..n -> EmailAlphabet] : n \in 0..MaxEmailLen}

InitEmail ==
    /\ sessions = {}
    /\ conv = [u \in Users |-> END]
    /\ user_data = [u \in Users |-> EmptyData]
    /\ \E s \in EmailInputs : last = Pending("is_valid_email", s)

IsValidEmail ==
    /\ IsPending("is_valid_email")
    /\ last' = [last EXCEPT
                  !.callback = "is_valid_email",
                  !.ret = IF is_valid_email(last.calls[1].arg)
                          THEN "True" ELSE "False",
                  !.calls = <<Call("is_valid_email", last.calls[1].arg, TRUE)>>]
    /\ UNCHANGED <<sessions, conv, user_data>>

NextEmail == IsValidEmail
SpecEmail == InitEmail /\ [][NextEmail]_vars

(* ================= the order summary rendered on its own =============== *)
InitRender ==
    /\ sessions = {}
    /\ conv = [u \in Users |-> END]
    /\ user_data = [u \in Users |-> EmptyData]
    /\ \E p \in OrderPayloads : last = Pending("format_order_details", p)

FormatOrderDetails ==
    /\ IsPending("format_order_details")
    /\ LET r == format_order_details(last.calls[1].arg)
       IN  last' = [last EXCEPT
                      !.callback = "format_order_details",
                      !.ret = r.kind,
                      !.calls = <<[op |-> "format_order_details",
                                   arg |-> last.calls[1].arg,
                                   ok |-> r.kind # "raise", status |-> 0,
                                   result |-> r]>>]
    /\ UNCHANGED <<sessions, conv, user_data>>

NextRender == FormatOrderDetails
SpecRender == InitRender /\ [][NextRender]_vars

(* ============================== properties ============================= *)
(* The latest update, read off `last`. *)
Actor == last.user
TokenBefore == get_token(last.rows, last.user)
TokenNow == get_token(sessions, last.user)
DataNow == user_data[last.user]
StateNow == conv[last.user]

Made(op) == \E i \in DOMAIN last.calls : last.calls[i].op = op
Succeeded(op) ==
    \E i \in DOMAIN last.calls : last.calls[i].op = op /\ last.calls[i].ok
RepliedWith(kind) ==
    \E i \in DOMAIN last.calls :
        /\ last.calls[i].op = "reply"
        /\ last.calls[i].arg = kind
        /\ last.calls[i].ok

(* C1: when a remote call made by the order-id step returns 401 or 403,    *)
(* the step deletes the user's stored session, clears the scratch state    *)
(* and ends the conversation, so that the next /start finds no session.    *)
C1_ExpiredSessionIsDeleted ==
    ( /\ last.callback = "ask_order_id"
      /\ \E i \in DOMAIN last.calls :
            /\ last.calls[i].op \in {"get_order_by_id", "create_otp"}
            /\ last.calls[i].status \in {401, 403} )
    => /\ TokenNow = None
       /\ DataNow = EmptyData
       /\ StateNow = END

(* C2: /cancel, in whichever dialogue state it arrives, leaves the user's  *)
(* stored session and scratch state as they were; arriving in an active    *)
(* state it ends the conversation, and with no conversation it changes     *)
(* nothing.                                                                 *)
C2_CancelKeepsSessionAndScratch ==
    last.update = "/cancel"
    => /\ TokenNow = TokenBefore
       /\ sessions = last.rows
       /\ DataNow = last.data
       /\ StateNow = END
       /\ last.from \in ActiveStates => last.callback = "cancel"

C2_Witness ==
    /\ last.update = "/cancel"
    /\ last.from = WAITING_FOR_OTP
    /\ last.callback = "cancel"
    /\ TokenBefore \in Tokens
    /\ TokenNow = TokenBefore
    /\ HasKey(DataNow, "customer_phone")
    /\ StateNow = END

(* C3: /logout, in whichever dialogue state it arrives, removes the user's *)
(* session (a load afterwards finds no row) and clears the scratch state.  *)
C3_LogoutRemovesSessionAndScratch ==
    last.update = "/logout"
    => /\ last.callback = "logout"
       /\ TokenNow = None
       /\ RowsOf(sessions, Actor) = {}
       /\ DataNow = EmptyData

C3_Witness ==
    /\ last.update = "/logout"
    /\ last.from = WAITING_FOR_OTP
    /\ TokenBefore \in Tokens
    /\ HasKey(last.data, "customer_phone")
    /\ TokenNow = None
    /\ DataNow = EmptyData

(* C4: after /logout is handled in an active dialogue state the            *)
(* conversation is terminated.                                              *)
C4_LogoutTerminates ==
    (last.update = "/logout" /\ last.from \in ActiveStates)
    => StateNow = END

(* C5: with a session stored for the user, /start arriving with no         *)
(* conversation moves straight to ASK_ORDER_ID: no credentials step runs,  *)
(* authenticate is not called, and session and scratch stay as they were.  *)
C5_StartWithSessionSkipsLogin ==
    (last.update = "/start" /\ last.from = END /\ RowsOf(last.rows, Actor) # {})
    => /\ last.callback = "start"
       /\ StateNow = ASK_ORDER_ID
       /\ ~Made("authenticate_user")
       /\ ~Made("save_token")
       /\ sessions = last.rows
       /\ DataNow = last.data

C5_Witness ==
    /\ last.update = "/start"
    /\ last.from = END
    /\ TokenBefore \in Tokens
    /\ last.data # EmptyData
    /\ StateNow = ASK_ORDER_ID
    /\ RepliedWith("already_authorized")

(* C6: with no session stored for the user, /start arriving with no        *)
(* conversation clears the whole scratch state and moves to ASK_EMAIL.     *)
C6_StartWithoutSessionClearsScratch ==
    (last.update = "/start" /\ last.from = END /\ RowsOf(last.rows, Actor) = {})
    => /\ last.callback = "start"
       /\ DataNow = EmptyData
       /\ \A key \in {"email", "authenticated", "current_order", "customer_phone"} :
             ~HasKey(DataNow, key)
       /\ StateNow = ASK_EMAIL

C6_Witness ==
    /\ last.update = "/start"
    /\ last.from = END
    /\ RowsOf(last.rows, Actor) = {}
    /\ HasKey(last.data, "email")
    /\ DataNow = EmptyData
    /\ StateNow = ASK_EMAIL

(* C7: no step handler raises: whatever call it makes fails, the handler   *)
(* returns a next state.                                                    *)
C7_NoStepRaises == last.ret # RAISE

(* C8: in ASK_PASSWORD, when authenticate succeeds and nothing fails the   *)
(* returned token is saved as the user's session, scratch is marked        *)
(* authenticated and the next state is ASK_ORDER_ID; when authenticate     *)
(* raises an API error or any unexpected error occurs, scratch is cleared, *)
(* the session store is left as it was and the conversation is ended.      *)
(* Stated of the steps that return a next state; C7 is about those that    *)
(* raise.                                                                   *)
PasswordStepFailed ==
    \/ ~HasKey(last.data, "email")
    \/ \E i \in DOMAIN last.calls : ~last.calls[i].ok

C8_PasswordStepOutcomes ==
    (last.callback = "ask_password" /\ last.ret # RAISE)
    => IF PasswordStepFailed
       THEN /\ DataNow = EmptyData
            /\ sessions = last.rows
            /\ StateNow = END
       ELSE /\ Succeeded("authenticate_user")
            /\ \E i \in DOMAIN last.calls :
                  /\ last.calls[i].op = "save_token"
                  /\ TokenNow = last.calls[i].arg
            /\ Get(DataNow, "authenticated") = TRUE
            /\ StateNow = ASK_ORDER_ID

(* C9: after save(U, t) a load of U returns t, and it keeps returning it   *)
(* until the next save or delete for U; a second save replaces the token:  *)
(* the table never holds two rows for one user.                             *)
C9_SaveLoadRoundTrip ==
    /\ \A u \in Users : Cardinality(RowsOf(sessions, u)) <= 1
    /\ (last.callback = "save_token" /\ last.ret # RAISE)
       => /\ TokenNow = last.calls[1].arg
          /\ RowsOf(sessions, Actor) = {Row(Actor, last.calls[1].arg)}
    /\ last.callback = "get_token"
       => /\ sessions = last.rows
          /\ last.ret = TokenBefore
          /\ RowsOf(sessions, Actor) # {}
             => RowsOf(sessions, Actor) = {Row(Actor, last.ret)}
    /\ last.callback \in {"save_token", "delete_token", "init_db"}
       => \A v \in Users \ {Actor} : RowsOf(sessions, v) = RowsOf(last.rows, v)

C9_Witness ==
    /\ last.callback = "save_token"
    /\ TokenBefore \in Tokens
    /\ last.calls[1].arg \in Tokens \ {TokenBefore}
    /\ TokenNow = last.calls[1].arg

(* C10: after delete(U) a load of U finds nothing, and deleting what is    *)
(* not there changes nothing; an order-id message handled while the user   *)
(* has no stored session clears scratch, reports the expired session and   *)
(* ends the conversation without calling fetch_order or request_otp.       *)
C10_NoSessionEndsOrderStep ==
    /\ Succeeded("delete_token")
       => /\ TokenNow = None
          /\ TokenBefore = None => sessions = last.rows
    /\ (last.callback = "ask_order_id" /\ RowsOf(last.rows, Actor) = {})
       => /\ DataNow = EmptyData
          /\ RepliedWith("session_expired")
          /\ StateNow = END
          /\ ~Made("get_order_by_id")
          /\ ~Made("create_otp")

C10_Witness ==
    /\ last.callback = "ask_order_id"
    /\ last.from = ASK_ORDER_ID
    /\ RowsOf(last.rows, Actor) = {}
    /\ RepliedWith("session_expired")
    /\ StateNow = END

(* What get_order_by_id returned in the latest step, when it returned. *)
Fetched(body) ==
    \E i \in DOMAIN last.calls :
        /\ last.calls[i].op = "get_order_by_id"
        /\ last.calls[i].ok
        /\ last.calls[i].result.value = body

FetchedWithoutPhone ==
    \E body \in OrderBodies : Fetched(body) /\ body.phone \notin Phones

(* C11: when the order is fetched but its payload holds no customer phone  *)
(* (missing or empty), the order-id step reports an error, stays in        *)
(* ASK_ORDER_ID, does not request an OTP and leaves the session store and  *)
(* the scratch state (current_order, customer_phone) as they were.         *)
C11_OrderWithoutPhone ==
    (last.callback = "ask_order_id" /\ FetchedWithoutPhone)
    => /\ RepliedWith("no_phone") \/ RepliedWith("unexpected_error")
       /\ \A p \in {Missing, ""} :
             Fetched([kind |-> "object", phone |-> p]) => RepliedWith("no_phone")
       /\ StateNow = ASK_ORDER_ID
       /\ ~Made("create_otp")
       /\ sessions = last.rows
       /\ DataNow = last.data

(* an order with an empty phone fetched after an earlier order left its    *)
(* phone in scratch                                                         *)
C11_Witness ==
    /\ last.callback = "ask_order_id"
    /\ Fetched([kind |-> "object", phone |-> ""])
    /\ Get(last.data, "customer_phone") \in Phones
    /\ DataNow = last.data
    /\ StateNow = ASK_ORDER_ID

(* The latest step's i-th call is a reply of this kind that was delivered. *)
IsReply(i, kind) ==
    /\ last.calls[i].op = "reply"
    /\ last.calls[i].arg = kind
    /\ last.calls[i].ok

(* C12: when the order is fetched with a phone in it and the OTP request    *)
(* then fails, the order summary has been sent before the OTP error is     *)
(* reported, and the conversation stays in ASK_ORDER_ID: WAITING_FOR_OTP   *)
(* is not entered.                                                          *)
C12_SummaryBeforeOtpError ==
    (last.callback = "ask_order_id" /\ Made("create_otp")
        /\ ~Succeeded("create_otp"))
    => /\ \E p \in Phones : Fetched([kind |-> "object", phone |-> p])
       /\ \E i, j, k \in DOMAIN last.calls :
             /\ i < j
             /\ j < k
             /\ IsReply(i, "order_summary")
             /\ last.calls[j].op = "create_otp"
             /\ IF last.calls[j].result.kind = "api"
                THEN IsReply(k, "otp_failed")
                ELSE IsReply(k, "unexpected_error")
       /\ StateNow = ASK_ORDER_ID

C12_Witness ==
    /\ last.callback = "ask_order_id"
    /\ \E j \in DOMAIN last.calls :
          /\ last.calls[j].op = "create_otp"
          /\ last.calls[j].status = 422
    /\ RepliedWith("order_summary")
    /\ RepliedWith("otp_failed")
    /\ StateNow = ASK_ORDER_ID

(* The verify_otp call of the latest step came to this kind of result. *)
Verified(kind) ==
    \E i \in DOMAIN last.calls :
        /\ last.calls[i].op = "verify_otp"
        /\ last.calls[i].result.kind = kind

(* C13: in WAITING_FOR_OTP with the phone in scratch, an API error of       *)
(* verify_otp, whatever its status (401, 403 and the 500 of a transport     *)
(* failure included), keeps the conversation in WAITING_FOR_OTP with the   *)
(* session and scratch as they were, attempt after attempt; a successful   *)
(* verification and an unexpected error both lead to ASK_ORDER_ID.         *)
C13_OtpStepOutcomes ==
    (last.callback = "handle_otp" /\ Truthy(Get(last.data, "customer_phone")))
    => /\ last.from = WAITING_FOR_OTP
       /\ Made("verify_otp")
       /\ Verified("api")
          => /\ StateNow = WAITING_FOR_OTP
             /\ sessions = last.rows
             /\ DataNow = last.data
             /\ RepliedWith("otp_invalid")
       /\ Verified("ok") => StateNow = ASK_ORDER_ID
       /\ Verified("exc") => StateNow = ASK_ORDER_ID

C13_Witness ==
    /\ last.callback = "handle_otp"
    /\ \E i \in DOMAIN last.calls :
          /\ last.calls[i].op = "verify_otp"
          /\ last.calls[i].arg \in Phones
          /\ last.calls[i].status = 401
    /\ StateNow = WAITING_FOR_OTP
    /\ TokenNow \in Tokens
    /\ Get(DataNow, "customer_phone") \in Phones

(* C14: in WAITING_FOR_OTP, when scratch no longer holds the customer       *)
(* phone, the step reports a session error and moves to ASK_ORDER_ID       *)
(* without calling verify_otp.                                              *)
C14_OtpWithoutPhone ==
    ( /\ last.callback = "handle_otp"
      /\ Get(last.data, "customer_phone") \notin Phones )
    => /\ RepliedWith("session_error")
       /\ StateNow = ASK_ORDER_ID
       /\ ~Made("verify_otp")

C14_Witness ==
    /\ last.callback = "handle_otp"
    /\ last.from = WAITING_FOR_OTP
    /\ ~HasKey(last.data, "customer_phone")
    /\ RepliedWith("session_error")
    /\ StateNow = ASK_ORDER_ID

(* The get_order_by_id call of the latest step came to this result. *)
FetchFailed(r) ==
    \E i \in DOMAIN last.calls :
        /\ last.calls[i].op = "get_order_by_id"
        /\ ~last.calls[i].ok
        /\ last.calls[i].result = r

(* C15: in ASK_ORDER_ID, when get_order_by_id fails with an API error whose *)
(* status is neither 401 nor 403 (the 500 of a transport failure included) *)
(* or with an unexpected error, the error is reported, the conversation    *)
(* stays in ASK_ORDER_ID and the session and the scratch state are as they *)
(* were, so that the step can be taken again.                               *)
C15_FetchFailureKeepsState ==
    last.callback = "ask_order_id"
    => /\ \A s \in (Statuses \cup {500}) \ {200, 401, 403} :
             FetchFailed(APIError(s))
             => /\ RepliedWith("order_error")
                /\ StateNow = ASK_ORDER_ID
                /\ sessions = last.rows
                /\ DataNow = last.data
       /\ FetchFailed(OtherError)
          => /\ RepliedWith("unexpected_error")
             /\ StateNow = ASK_ORDER_ID
             /\ sessions = last.rows
             /\ DataNow = last.data

(* a transport failure while an earlier order's phone is in scratch *)
C15_Witness ==
    /\ last.callback = "ask_order_id"
    /\ FetchFailed(APIError(500))
    /\ Get(last.data, "customer_phone") \in Phones
    /\ RepliedWith("order_error")
    /\ StateNow = ASK_ORDER_ID
    /\ TokenNow \in Tokens

(* C16: authenticate_user returns a token if and only if the response has   *)
(* status 200 and its decoded body is a JSON object holding a token field;  *)
(* for every other response (another status, 200 with a body that is no    *)
(* JSON object, 200 with an object lacking token) it raises an APIError    *)
(* carrying the response's status, and when the request fails at transport *)
(* level it raises APIError(500).                                           *)
C16_AuthenticateResults ==
    last.callback = "authenticate_user"
    => LET x == last.calls[1].arg
           r == last.calls[1].result
           holds_token == /\ x.status = 200
                          /\ x.body.kind = "object"
                          /\ x.body.token # Missing
       IN  IF x.transport = "response"
           THEN IF holds_token
                THEN r = Returned(x.body.token)
                ELSE r = APIError(x.status)
           ELSE r = APIError(500)

(* The string the email check was applied to, and what it said. *)
Checked == last.calls[1].arg
Accepted == last.ret = "True"

Positions(s, c) == {k \in 1..Len(s) : s[k] = c}
LastOf(s, c) == CHOOSE k \in Positions(s, c) : \A m \in Positions(s, c) : m <= k

(* local@domain.tld read from the right: the last '@', the last '.', a     *)
(* local part and a domain of the given characters and a top-level part of *)
(* two ASCII letters or more                                                *)
HasShape(s, local, domain) ==
    /\ Positions(s, "@") # {}
    /\ Positions(s, ".") # {}
    /\ LET at == LastOf(s, "@")
           dot == LastOf(s, ".")
       IN  /\ 1 < at
           /\ at + 1 < dot
           /\ dot + 2 <= Len(s)
           /\ AllIn(s, 1, at - 1, local)
           /\ AllIn(s, at + 1, dot - 1, domain)
           /\ AllIn(s, dot + 1, Len(s), Letters)

(* \w: letters, digits and the underscore, ASCII or not *)
WordChars == Letters \cup Digits \cup {"_", "U+00E9"}

LacksAt(s) == Positions(s, "@") = {}
DomainHasNoDot(s) ==
    /\ Positions(s, "@") # {}
    /\ \A k \in Positions(s, ".") : k < LastOf(s, "@")

(* C17 as stated: the email check accepts every string matching            *)
(* ^[\w.+-]+@[\w.-]+\.[a-zA-Z]{2,}$ and rejects every string that lacks    *)
(* an '@' or whose domain part has no dot.                                  *)
C17_AcceptsWordPattern ==
    last.callback = "is_valid_email"
    => /\ HasShape(Checked, WordChars \cup {".", "+", "-"},
                   WordChars \cup {".", "-"}) => Accepted
       /\ LacksAt(Checked) => ~Accepted
       /\ DomainHasNoDot(Checked) => ~Accepted

(* C17, amended: the email check accepts every string matching             *)
(* ^[a-zA-Z0-9._%+-]+@[a-zA-Z0-9.-]+\.[a-zA-Z]{2,}$ (ASCII letters and     *)
(* digits only, no underscore in the domain) and rejects every string that *)
(* lacks an '@' or whose domain part has no dot.                            *)
C17_AcceptsAsciiPattern ==
    last.callback = "is_valid_email"
    => /\ HasShape(Checked, LocalChars, DomainChars) => Accepted
       /\ LacksAt(Checked) => ~Accepted
       /\ DomainHasNoDot(Checked) => ~Accepted

C17_Witness ==
    /\ last.callback = "is_valid_email"
    /\ Checked = <<"_", "@", "a", ".", "a", "a">>
    /\ Accepted

(* The text of the message the email step read. *)
TypedEmail == strip(last.calls[1].arg)

(* C18: in ASK_EMAIL a message that fails the email check changes nothing:  *)
(* the conversation stays in ASK_EMAIL and the scratch state (a stored     *)
(* email in particular) and the session store are as they were; a message  *)
(* that passes stores the email in scratch and moves to ASK_PASSWORD.      *)
C18_EmailStepOutcomes ==
    last.callback = "ask_email"
    => /\ last.from = ASK_EMAIL
       /\ sessions = last.rows
       /\ IF is_valid_email(TypedEmail)
          THEN /\ DataNow = Put(last.data, "email", TypedEmail)
               /\ StateNow = ASK_PASSWORD
               /\ RepliedWith("email_accepted")
          ELSE /\ DataNow = last.data
               /\ StateNow = ASK_EMAIL
               /\ RepliedWith("invalid_email")

(* an accepted text, padded with blanks; a rejected one *)
C18_WitnessAccepted ==
    /\ last.callback = "ask_email"
    /\ last.calls[1].arg = <<" ", "a", "@", "b", ".", "c", "o", " ">>
    /\ Get(DataNow, "email") = <<"a", "@", "b", ".", "c", "o">>
    /\ StateNow = ASK_PASSWORD

C18_Witness ==
    /\ last.callback = "ask_email"
    /\ last.calls[1].arg = <<"a", "@", "b">>
    /\ ~HasKey(DataNow, "email")
    /\ StateNow = ASK_EMAIL

(* C19: the order-summary renderer never raises, whatever malformed or      *)
(* partial payload it is given (data missing, null or not an object; items *)
(* missing, not a list or holding entries that are no objects; additional  *)
(* missing or null; fields of unexpected type): it always returns a        *)
(* string, and on a formatting failure that string holds the order id or   *)
(* the placeholder N/A.  Stated of the payloads that are JSON objects.     *)
C19_RendererNeverRaises ==
    (last.callback = "format_order_details" /\ last.calls[1].arg.top = "dict")
    => LET p == last.calls[1].arg
           r == last.calls[1].result
       IN  /\ r.kind \in {"summary", "error_text"}
           /\ r.kind = "error_text"
              => r.order_id = (IF p.top = "dict" /\ p.data = "dict"
                                  /\ p.id # PyMissing
                               THEN str(p.id) ELSE <<"N", "/", "A">>)

(* C20: the session store is written only by a successful authentication    *)
(* (save) and by logout (delete): start, the email step, a failed          *)
(* authentication, every outcome of the order-id step and of the OTP step, *)
(* and cancel leave every user's stored token as it was.                    *)
C20_StoreWrittenOnlyByLoginAndLogout ==
    /\ sessions # last.rows
       => \/ /\ last.callback = "ask_password"
             /\ Succeeded("authenticate_user")
             /\ Succeeded("save_token")
          \/ /\ last.callback = "logout"
             /\ Succeeded("delete_token")
    /\ \A u \in Users \ {Actor} : RowsOf(sessions, u) = RowsOf(last.rows, u)
    /\ last.callback \in {"start", "ask_email", "ask_order_id", "handle_otp",
                          "cancel", "none"}
       => \A u \in Users : get_token(sessions, u) = get_token(last.rows, u)
    /\ (last.callback = "ask_password" /\ ~Succeeded("authenticate_user"))
       => \A u \in Users : get_token(sessions, u) = get_token(last.rows, u)

(* the server answers 401 to the order request of a user while both users  *)
(* hold a session                                                           *)
C20_Witness ==
    /\ last.callback = "ask_order_id"
    /\ \E i \in DOMAIN last.calls :
          /\ last.calls[i].op = "get_order_by_id"
          /\ last.calls[i].status = 401
    /\ \A u \in Users : get_token(sessions, u) \in Tokens

(* The client functions of api.py and how often the latest step called one. *)
RemoteOps == {"authenticate_user", "get_order_by_id", "create_otp", "verify_otp"}
TimesCalled(op) == Cardinality({i \in DOMAIN last.calls : last.calls[i].op = op})

(* C21: no retries: the handling of one message calls each remote          *)
(* operation at most once, and a remote call that failed is not made       *)
(* again in that step; between two messages nothing is called at all.      *)
C21_NoRetries ==
    /\ \A op \in RemoteOps : TimesCalled(op) <= 1
    /\ \A i \in DOMAIN last.calls :
          (last.calls[i].op \in RemoteOps /\ ~last.calls[i].ok)
          => \A j \in DOMAIN last.calls : j > i => last.calls[j].op = "reply"
    /\ last.update = "none" => \A op \in RemoteOps : TimesCalled(op) = 0

(* a login refused by the server: one call, then the reply *)
C21_Witness ==
    /\ last.callback = "ask_password"
    /\ TimesCalled("authenticate_user") = 1
    /\ ~Succeeded("authenticate_user")
    /\ RepliedWith("auth_failed")

(* The latest step took its conversation into WAITING_FOR_OTP. *)
EnteredOtp ==
    /\ last.user \in Users
    /\ StateNow = WAITING_FOR_OTP
    /\ last.from # WAITING_FOR_OTP

(* C22: the conversation enters WAITING_FOR_OTP only from ASK_ORDER_ID,    *)
(* and only in a step in which, in this order, a session token was found,  *)
(* the order was fetched with a non-empty customer phone, phone and order  *)
(* were written to scratch, the summary was sent and the OTP request for   *)
(* that phone succeeded.  That scratch is written before the summary is    *)
(* sent shows in the steps whose summary could not be sent.                *)
C22_OtpEnteredAfterOrderedSteps ==
    /\ EnteredOtp
       => /\ last.from = ASK_ORDER_ID
          /\ last.callback = "ask_order_id"
          /\ TokenBefore \in Tokens
          /\ \E p \in Phones :
                /\ Fetched([kind |-> "object", phone |-> p])
                /\ DataNow = Put(Put(last.data, "current_order",
                                     [kind |-> "object", phone |-> p]),
                                 "customer_phone", p)
                /\ \E g, f, s, o \in DOMAIN last.calls :
                      /\ g < f /\ f < s /\ s < o
                      /\ last.calls[g].op = "get_token" /\ last.calls[g].ok
                      /\ last.calls[f].op = "get_order_by_id"
                      /\ last.calls[f].ok
                      /\ last.calls[f].arg = TokenBefore
                      /\ IsReply(s, "order_summary")
                      /\ last.calls[o].op = "create_otp"
                      /\ last.calls[o].ok
                      /\ last.calls[o].arg = p
    /\ ( /\ last.callback = "ask_order_id"
         /\ \E s \in DOMAIN last.calls :
               last.calls[s].op = "reply" /\ last.calls[s].arg = "order_summary" )
       => \E p \in Phones :
             /\ Fetched([kind |-> "object", phone |-> p])
             /\ Get(DataNow, "customer_phone") = p
             /\ Get(DataNow, "current_order") = [kind |-> "object", phone |-> p]

C22_Witness ==
    /\ EnteredOtp
    /\ last.callback = "ask_order_id"
    /\ Succeeded("create_otp")
    /\ RepliedWith("otp_sent")
    /\ Get(DataNow, "customer_phone") \in Phones

(* C23: with messages handled one at a time, in every reachable state a    *)
(* user whose scratch holds customer_phone or the authenticated flag has a *)
(* stored session token; so verify_otp is never called for a user who has  *)
(* no stored session.                                                       *)
C23_ScratchImpliesSession ==
    /\ \A u \in Users :
          (HasKey(user_data[u], "customer_phone")
              \/ HasKey(user_data[u], "authenticated"))
          => get_token(sessions, u) \in Tokens
    /\ Made("verify_otp") => TokenBefore \in Tokens /\ TokenNow \in Tokens

(* a verification by one user after the other user logged in and out *)
C23_Witness ==
    /\ Made("verify_otp")
    /\ TokenNow \in Tokens
    /\ \E u \in Users \ {Actor} :
          /\ get_token(sessions, u) = None
          /\ user_data[u] = EmptyData
          /\ conv[u] = WAITING_FOR_OTP

(* C24: within one conversation of a user, every verify_otp call is made   *)
(* with the phone of the conversation's latest create_otp that returned,   *)
(* which is the phone of the order fetched last, never with the phone of   *)
(* an earlier order.                                                        *)
C24_VerifyUsesLatestOtpPhone ==
    \A i \in DOMAIN last.calls :
        last.calls[i].op = "verify_otp"
        => /\ last.callback = "handle_otp"
           /\ last.calls[i].arg \in Phones
           /\ last.calls[i].arg = last.awaited
           /\ HasKey(last.data, "current_order")
           /\ last.calls[i].arg = last.data["current_order"].phone

(* a code checked for the second phone while the other user waits for a    *)
(* code sent to the first                                                   *)
C24_Witness ==
    /\ last.callback = "handle_otp"
    /\ \E i \in DOMAIN last.calls :
          /\ last.calls[i].op = "verify_otp"
          /\ last.calls[i].arg = last.awaited
          /\ \E u \in Users \ {Actor} :
                /\ last.otp_phone[u] \in Phones
                /\ last.otp_phone[u] # last.calls[i].arg

(* C25: within one conversation of a user, whenever the conversation is in *)
(* WAITING_FOR_OTP the scratch state holds customer_phone, unless /logout  *)
(* was handled since WAITING_FOR_OTP was entered: the missing-phone branch *)
(* of the OTP step is reached only after a /logout sent while waiting.     *)
C25_WaitingHoldsPhoneUnlessLoggedOut ==
    /\ \A u \in Users :
          conv[u] = WAITING_FOR_OTP
          => \/ Get(user_data[u], "customer_phone") \in Phones
             \/ last.logged_out[u]
    /\ ( /\ last.callback = "handle_otp"
         /\ Get(last.data, "customer_phone") \notin Phones )
       => /\ last.logged_out[Actor]
          /\ last.data = EmptyData
    /\ ( /\ last.callback = "logout"
         /\ last.from = WAITING_FOR_OTP
         /\ Succeeded("delete_token") )
       => /\ ~last.in_conv
          /\ StateNow = WAITING_FOR_OTP
          /\ DataNow = EmptyData

(* the OTP step finds no phone after a /logout sent while waiting *)
C25_Witness ==
    /\ last.callback = "handle_otp"
    /\ last.from = WAITING_FOR_OTP
    /\ RepliedWith("session_error")
    /\ last.awaited \in Phones
    /\ ~HasKey(last.data, "customer_phone")

(* C26: /start is an entry point only: while the conversation is in an     *)
(* active state a /start command is given to no handler and changes        *)
(* neither the dialogue state, nor the scratch state, nor the session      *)
(* store.                                                                   *)
C26_StartIgnoredInActiveStates ==
    /\ (last.update = "/start" /\ last.from \in ActiveStates)
       => /\ last.callback = "none"
          /\ last.calls = <<>>
          /\ StateNow = last.from
          /\ DataNow = last.data
          /\ sessions = last.rows
    /\ last.callback = "start" => last.from = END

(* /start sent by a logged-in user who is waiting for a code *)
C26_Witness ==
    /\ last.update = "/start"
    /\ last.from = WAITING_FOR_OTP
    /\ last.callback = "none"
    /\ StateNow = WAITING_FOR_OTP
    /\ Get(DataNow, "customer_phone") \in Phones
    /\ TokenNow \in Tokens

====
